---- MODULE Spec2Model ----
(***************************************************************************)
(* Model of the OCI container-instance autoscaling functions:              *)
(*   src/autoscaling/scale-up-function/func.py    (scale-up handler)       *)
(*   src/autoscaling/scale-down-function/func.py  (scale-down handler)     *)
(* Every invocation is a sequential run of one handler; the invocations    *)
(* share only the provider state (container instances, load balancer).     *)
(* One action is one provider call of a handler together with the local    *)
(* code that follows it up to the next provider call.                      *)
(***************************************************************************)
EXTENDS Integers, Sequences, FiniteSets, TLC

\* ------------------------------------------------------------------ bounds
NumIds == 3             \* container instances of the fleet that can ever exist
MaxTime == 1            \* the clock runs from 0 to MaxTime
MaxInstances == 2       \* MAX_INSTANCES of the configuration
CooldownSeconds == 1    \* COOLDOWN_SECONDS of the configuration
ActiveMaxWait == 2      \* max_wait of wait_for_instance_state, in clock units
IpMaxWait == 1          \* max_wait of the scale-up get_instance_private_ip
DeleteMaxWait == 2      \* max_wait of the deletion confirmation loop
PollInterval == 1       \* interval of the polling loops, in clock units

\* ------------------------------------------------------- program constants
MinInstances == 1       \* MIN_INSTANCES, the default of get_config
ForeignId == 0          \* an instance whose display name lacks the prefix
NoInstance == -1        \* Python None / unbound instance reference
NoIp == -2              \* private_ip not yet bound
UnknownIp == -1         \* private_ip = "unknown"
OlderName == -1         \* the name suffix of an instance older than the clock
NotRead == -1           \* history: the inventory has not been read
NoElapsed == -1         \* history: no matching instance at the cooldown check

\* Two alarm deliveries; each runs one handler once, and the two may overlap.
Invocations == {"a", "b"}
FleetIds == 1..NumIds
AllIds == FleetIds \cup {ForeignId}
Times == 0..MaxTime

LifecycleStates == {"NONE", "CREATING", "ACTIVE", "FAILED", "DELETING", "DELETED"}

VARIABLES
    inst,         \* compute provider: id -> [state, time_created, display_name]
    now,          \* wall clock
    backend_sets, \* load balancer: does the configured backend set exist
    backends,     \* load balancer: addresses registered in the backend set
    inv           \* invocation -> the handler's local state and its result

vars == <<inst, now, backend_sets, backends, inv>>

\* ----------------------------------------------------------- configuration
\* get_config(): the values the handlers read from the environment.
config == [max_instances |-> MaxInstances,
           min_instances |-> MinInstances,
           cooldown_seconds |-> CooldownSeconds]

\* inst.display_name.startswith(prefix)
MatchesPrefix(i) == i # ForeignId

\* The private address of instance i (one address per instance).
AddressOf(i) == i

\* ------------------------------------------------------- invocation record
IdleInvocation ==
    [kind |-> "none", pc |-> "idle",
     body |-> "none",         \* the parsed event, until the set-up is through
     current_count |-> 0, creating_count |-> 0,
     instance_ocid |-> NoInstance, private_ip |-> NoIp, elapsed |-> 0,
     status |-> "none", message |-> "none", fields |-> {},
     total_instances |-> 0,
     calls |-> <<>>,          \* mutating provider calls issued, in order
     trail |-> <<>>,          \* history: the steps of the run that went through
     faults |-> {},           \* history: provider answers the run ran into
     seen_active |-> NotRead,   \* history: ACTIVE fleet instances at the read
     seen_creating |-> NotRead, \* history: CREATING fleet instances at the read
     seen_elapsed |-> NoElapsed,\* history: age of the newest instance at the check
     seen_oldest |-> NoInstance,\* history: oldest listed instance, least id on a tie
     seen_first |-> NoInstance, \* history: oldest listed instance, first listed on a tie
     overtaken |-> FALSE]     \* history: another run created after this one's read

\* ------------------------------------------------------------- inventory
\* Mutant of Existing: a list call with lifecycle_state="ACTIVE".
Existing_ActiveOnly == {i \in AllIds : inst[i].state = "ACTIVE"}

\* list_container_instances(compartment_id=...): the instances in any state.
Existing == {i \in AllIds : inst[i].state # "NONE"}
InState(s) == {i \in AllIds : inst[i].state = s}
FleetInState(s) == {i \in InState(s) : MatchesPrefix(i)}

\* All orders in which the provider may list the set S.
Orderings(S) ==
    {s \in [1..Cardinality(S) -> S] : \A i, j \in 1..Cardinality(S) : i # j => s[i] # s[j]}

\* [inst for inst in response.data.items if inst.display_name.startswith(prefix)]
FilterPrefix(items) == SelectSeq(items, MatchesPrefix)

Range(s) == {s[k] : k \in 1..Len(s)}

\* ------------------------------------------------------------ the results
Finish(r, status, message, fields) ==
    [r EXCEPT !.pc = "done", !.status = status, !.message = message, !.fields = fields,
              !.elapsed = 0, !.body = "none"]

\* Mutant of HandlerExcept: the exception leaves the handler.
HandlerExcept_Escapes(r, message) ==
    [r EXCEPT !.pc = "raised", !.message = message, !.elapsed = 0]

\* except Exception as e: return {"status": "error", "message": str(e), "timestamp": ...}
HandlerExcept(r, message) ==
    Finish(r, "error", message, {"status", "message", "timestamp"})

\* A step of the handler raised: remember which, and run the except clause.
Fault(r, what) == [r EXCEPT !.faults = @ \cup {what}]

Raise(r, step, message) == HandlerExcept(Fault(r, step), message)

Issue(r, call) == [r EXCEPT !.calls = Append(@, call)]

\* History: a step of the handler returned normally.
Passed(r, step) == [r EXCEPT !.trail = Append(@, step)]

\* ---------------------------------------------------- the event and set-up
Payloads == {"json", "garbage", "missing"}

\* json.loads(data.getvalue()), with body = {} when that raises.
ParseEvent(payload) == IF payload = "json" THEN "body" ELSE "empty"

\* Scale-up handler, lines 33-42: the event is parsed and logged.
UpInvoke(p) ==
    /\ inv[p].pc = "idle"
    /\ \E payload \in Payloads :
         inv' = [inv EXCEPT ![p] = [IdleInvocation EXCEPT !.kind = "up",
                                                          !.body = ParseEvent(payload),
                                                          !.pc = "setup"]]
    /\ UNCHANGED <<inst, now, backend_sets, backends>>

\* Scale-down handler, lines 33-42.
DownInvoke(p) ==
    /\ inv[p].pc = "idle"
    /\ \E payload \in Payloads :
         inv' = [inv EXCEPT ![p] = [IdleInvocation EXCEPT !.kind = "down",
                                                          !.body = ParseEvent(payload),
                                                          !.pc = "setup"]]
    /\ UNCHANGED <<inst, now, backend_sets, backends>>

\* Mutant of AfterSetUp: a handler that wants an alarm body to go on.
AfterSetUp_NeedsBody(r, setup_ok) ==
    IF setup_ok /\ r.body = "body"
    THEN [r EXCEPT !.body = "none",
                   !.pc = IF r.kind = "up" THEN "count_active" ELSE "list_active"]
    ELSE Raise(r, "setup", "setup")

\* Lines 44-52 of both handlers: get_config() and the clients. A configuration
\* that cannot be loaded (a variable that is not an integer, no COMPARTMENT_OCID)
\* or a signer that cannot be built raises. The body is not read again: from
\* here on it is no part of the state.
AfterSetUp(r, setup_ok) ==
    IF setup_ok
    THEN [r EXCEPT !.body = "none",
                   !.pc = IF r.kind = "up" THEN "count_active" ELSE "list_active"]
    ELSE Raise(r, "setup", "setup")

UpSetUp(p) ==
    /\ inv[p].kind = "up" /\ inv[p].pc = "setup"
    /\ \E setup_ok \in BOOLEAN : inv' = [inv EXCEPT ![p] = AfterSetUp(inv[p], setup_ok)]
    /\ UNCHANGED <<inst, now, backend_sets, backends>>

DownSetUp(p) ==
    /\ inv[p].kind = "down" /\ inv[p].pc = "setup"
    /\ \E setup_ok \in BOOLEAN : inv' = [inv EXCEPT ![p] = AfterSetUp(inv[p], setup_ok)]
    /\ UNCHANGED <<inst, now, backend_sets, backends>>

\* ------------------------------------------------------ scale-up: policy
\* count_active_instances / count_creating_instances: the number of listed
\* instances in the given state whose name has the prefix; 0 when the read fails.
CountInstances(ok, state) ==
    IF ok THEN Cardinality({i \in InState(state) : MatchesPrefix(i)}) ELSE 0

\* if total_count >= config['max_instances']
AtMaximum(total_count) == total_count >= config.max_instances

\* Mutant of InProgress: one instance in creation is let through.
InProgress_OffByOne(creating_count) == creating_count > 1

\* if creating_count > 0
InProgress(creating_count) == creating_count > 0

UpCountActive(p) ==
    /\ inv[p].kind = "up" /\ inv[p].pc = "count_active"
    /\ \E ok \in BOOLEAN :
         LET r == inv[p]
         IN  inv' = [inv EXCEPT ![p] =
                   [r EXCEPT !.current_count = CountInstances(ok, "ACTIVE"),
                             !.seen_active = Cardinality(FleetInState("ACTIVE")),
                             !.pc = "count_creating"]]
    /\ UNCHANGED <<inst, now, backend_sets, backends>>

\* Lines 56-80: the creating count, then the maximum and the in-progress checks.
UpCountCreating(p) ==
    /\ inv[p].kind = "up" /\ inv[p].pc = "count_creating"
    /\ \E ok \in BOOLEAN :
         LET creating_count == CountInstances(ok, "CREATING")
             r0 == inv[p]
             r == [r0 EXCEPT !.creating_count = creating_count,
                             !.seen_creating = Cardinality(FleetInState("CREATING"))]
             total_count == r.current_count + creating_count
         IN  inv' = [inv EXCEPT ![p] =
                 IF AtMaximum(total_count)
                 THEN Finish(r, "skipped", "maximum",
                        {"status", "message", "active_count", "creating_count", "total_count"})
                 ELSE IF InProgress(creating_count)
                 THEN Finish(r, "skipped", "in_progress",
                        {"status", "message", "active_count", "creating_count"})
                 ELSE [r EXCEPT !.pc = "cooldown"]]
    /\ UNCHANGED <<inst, now, backend_sets, backends>>

Max(S) == CHOOSE x \in S : \A y \in S : y <= x

\* Mutant of CooldownElapsed: the boundary counts as not elapsed.
CooldownElapsed_Strict(seconds_elapsed, cooldown_seconds) ==
    ~(seconds_elapsed <= cooldown_seconds)

\* if seconds_elapsed < cooldown_seconds: return False
CooldownElapsed(seconds_elapsed, cooldown_seconds) ==
    ~(seconds_elapsed < cooldown_seconds)

\* Mutant of check_cooldown: the except clause returns False.
check_cooldown_FailsClosed(ok) ==
    IF ~ok THEN FALSE
    ELSE LET matching_instances == {i \in Existing : MatchesPrefix(i)}
         IN  IF matching_instances = {} THEN TRUE
             ELSE LET most_recent == Max({inst[i].time_created : i \in matching_instances})
                      seconds_elapsed == now - most_recent
                  IN  CooldownElapsed(seconds_elapsed, config.cooldown_seconds)

\* check_cooldown: True when scaling is allowed. The read lists every instance,
\* whatever its state; an exception anywhere returns True.
check_cooldown(ok) ==
    IF ~ok THEN TRUE
    ELSE LET matching_instances == {i \in Existing : MatchesPrefix(i)}
         IN  IF matching_instances = {} THEN TRUE
             ELSE LET most_recent == Max({inst[i].time_created : i \in matching_instances})
                      seconds_elapsed == now - most_recent
                  IN  CooldownElapsed(seconds_elapsed, config.cooldown_seconds)

\* The age of the newest instance of the fleet, in any state.
NewestAge ==
    LET fleet == {i \in FleetIds : inst[i].state # "NONE"}
    IN  IF fleet = {} THEN NoElapsed
        ELSE now - Max({inst[i].time_created : i \in fleet})

\* History: the newest instance of the fleet is younger than the cooldown.
InsideCooldown == NewestAge # NoElapsed /\ NewestAge < CooldownSeconds

UpCheckCooldown(p) ==
    /\ inv[p].kind = "up" /\ inv[p].pc = "cooldown"
    /\ \E ok \in BOOLEAN :
         LET r0 == IF ~ok /\ InsideCooldown THEN Fault(inv[p], "cooldown_read") ELSE inv[p]
             r == [r0 EXCEPT !.seen_elapsed = NewestAge]
         IN  inv' = [inv EXCEPT ![p] =
                   IF ~check_cooldown(ok)
                   THEN Finish(r, "skipped", "cooldown", {"status", "message", "current_count"})
                   ELSE [r EXCEPT !.pc = "create"]]
    /\ UNCHANGED <<inst, now, backend_sets, backends>>

\* --------------------------------------------------- scale-up: provisioning
FreeIds == {i \in FleetIds : inst[i].state = "NONE"}
Min(S) == CHOOSE x \in S : \A y \in S : x <= y

\* list_container_instances(display_name=display_name): the instances named
\* prefix-<int(time.time())>, the name create_container_instance has just used.
SameDisplayName(t) ==
    {i \in FleetIds : inst[i].state # "NONE" /\ inst[i].display_name = t}

\* History: p has created an instance; a run that read its creating count
\* before and has not yet created is overtaken.
Overtake(p, r) ==
    [q \in Invocations |->
        IF q = p THEN r
        ELSE IF inv[q].kind = "up" /\ inv[q].pc \in {"cooldown", "create"}
        THEN [inv[q] EXCEPT !.overtaken = TRUE]
        ELSE inv[q]]

\* create_container_instance: the create request, then the instance's id from
\* the work request, else from the list by display name (items[0]), else raise.
UpCreate(p) ==
    /\ inv[p].kind = "up" /\ inv[p].pc = "create"
    /\ LET r == Issue(inv[p], "create_instance")
       IN  \/ \* the create request raises (also: the provider has no capacity left)
              /\ inv' = [inv EXCEPT ![p] = Raise(r, "provision", "create")]
              /\ UNCHANGED inst
           \/ /\ FreeIds # {}
              /\ LET new == Min(FreeIds)
                     created == [inst EXCEPT ![new] =
                                   [state |-> "CREATING", time_created |-> now,
                                    display_name |-> now]]
                 IN  /\ inst' = created
                     /\ \/ \* the work request names the instance
                           inv' = Overtake(p, [Passed(r, "created") EXCEPT
                                                 !.instance_ocid = new,
                                                 !.pc = "wait_active"])
                        \/ \* fallback: the first instance listed under the display name
                           \E o \in SameDisplayName(now) \cup {new} :
                             inv' = Overtake(p, [Passed(r, "created") EXCEPT
                                                   !.instance_ocid = o,
                                                   !.pc = "wait_active"])
                        \/ \* "Failed to retrieve container instance OCID"
                           inv' = Overtake(p, Raise(r, "provision", "no_ocid"))
    /\ UNCHANGED <<now, backend_sets, backends>>

\* Mutant of PollAgain: a loop without the timeout.
PollAgain_NoTimeout(r, max_wait, timeout) == [r EXCEPT !.elapsed = @ + PollInterval]

\* One pass of a polling loop that did not return: time.sleep(interval);
\* elapsed += interval; the loop ends, and `timeout` follows, when
\* elapsed < max_wait no longer holds.
PollAgain(r, max_wait, timeout) ==
    LET elapsed == r.elapsed + PollInterval
    IN  IF elapsed < max_wait THEN [r EXCEPT !.elapsed = elapsed] ELSE timeout

\* Mutant of WaitTimedOut: the timeout is a returned False, which the handler
\* (line 98 drops the value) does not look at.
WaitTimedOut_ReturnsFalse(r) == [r EXCEPT !.pc = "get_ip", !.elapsed = 0]

\* Mutant of WaitTimedOut: the handler provisions once more.
WaitTimedOut_Retries(r) == [r EXCEPT !.pc = "create", !.elapsed = 0]

\* wait_for_instance_state, line 340: raise Exception("Timeout waiting for
\* instance to reach ... state").
WaitTimedOut(r) == Raise(r, "await_active", "timeout_state")

\* wait_for_instance_state(container_client, instance_ocid, "ACTIVE", max_wait):
\* an exception of the get is logged and the loop goes on; the timeout raises.
UpWaitActive(p) ==
    /\ inv[p].kind = "up" /\ inv[p].pc = "wait_active"
    /\ \E ok \in BOOLEAN :
         LET r == inv[p]
         IN  inv' = [inv EXCEPT ![p] =
                 IF ok /\ inst[r.instance_ocid].state = "ACTIVE"
                 THEN [Passed(r, "active") EXCEPT !.pc = "get_ip", !.elapsed = 0]
                 ELSE PollAgain(r, ActiveMaxWait, WaitTimedOut(r))]
    /\ UNCHANGED <<inst, now, backend_sets, backends>>

\* Scale-up get_instance_private_ip: the loop returns the address once the
\* instance has a vnic with a private address; the timeout raises.
UpGetIp(p) ==
    /\ inv[p].kind = "up" /\ inv[p].pc = "get_ip"
    /\ \E resolved \in BOOLEAN :
         LET r == inv[p]
         IN  inv' = [inv EXCEPT ![p] =
                 IF resolved
                 THEN [Passed(r, "resolved") EXCEPT
                         !.private_ip = AddressOf(r.instance_ocid),
                         !.pc = "ensure_backend_set", !.elapsed = 0]
                 ELSE PollAgain(r, IpMaxWait, Raise(r, "resolve_address", "timeout_ip"))]
    /\ UNCHANGED <<inst, now, backend_sets, backends>>

\* Mutant of EnsureGetRaises: the exception is logged and the handler goes on.
EnsureGetRaises_Swallowed(r) == [Fault(r, "ensure_backend_set") EXCEPT !.pc = "add_backend"]

\* ensure_backend_set_exists, lines 369-374: get_load_balancer; an exception is
\* logged and raised again.
EnsureGetRaises(r) == Raise(r, "ensure_backend_set", "get_load_balancer")

\* Mutant of InBackendSets: the name is never found.
InBackendSets_Never == FALSE

\* if config["backend_set_name"] in lb.backend_sets
InBackendSets == backend_sets

UpEnsureBackendSet(p) ==
    /\ inv[p].kind = "up" /\ inv[p].pc = "ensure_backend_set"
    /\ \E ok \in BOOLEAN :
         LET r == inv[p]
         IN  inv' = [inv EXCEPT ![p] =
                 IF ~ok THEN EnsureGetRaises(r)
                 ELSE IF InBackendSets
                 THEN [Passed(r, "ensured") EXCEPT !.pc = "add_backend"]
                 ELSE [r EXCEPT !.pc = "create_backend_set"]]
    /\ UNCHANGED <<inst, now, backend_sets, backends>>

\* ensure_backend_set_exists, lines 376-403: create_backend_set; the provider
\* refuses to create a backend set that exists by now.
UpCreateBackendSet(p) ==
    /\ inv[p].kind = "up" /\ inv[p].pc = "create_backend_set"
    /\ LET r == Issue(inv[p], "create_backend_set")
       IN  \/ /\ ~backend_sets
              /\ backend_sets' = TRUE
              /\ inv' = [inv EXCEPT ![p] =
                    [Passed(r, "ensured") EXCEPT !.pc = "add_backend"]]
           \/ /\ inv' = [inv EXCEPT ![p] = Raise(r, "ensure_backend_set", "create_backend_set")]
              /\ UNCHANGED backend_sets
    /\ UNCHANGED <<inst, now, backends>>

\* Mutant of UpSuccess: the fleet size reported leaves out the new instance.
UpSuccess_StaleTotal(r) ==
    Finish([r EXCEPT !.total_instances = r.current_count],
           "success", "scaled_up",
           {"status", "message", "instance_ocid", "private_ip",
            "total_instances", "timestamp"})

\* The success result of the scale-up handler, lines 113-123.
UpSuccess(r) ==
    Finish([r EXCEPT !.total_instances = r.current_count + 1],
           "success", "scaled_up",
           {"status", "message", "instance_ocid", "private_ip",
            "total_instances", "timestamp"})

\* add_backend_to_lb, lines 108-111, and the success result.
UpAddBackend(p) ==
    /\ inv[p].kind = "up" /\ inv[p].pc = "add_backend"
    /\ LET r == Issue(inv[p], "create_backend")
       IN  \/ /\ backend_sets /\ r.private_ip \notin backends
              /\ backends' = backends \cup {r.private_ip}
              /\ inv' = [inv EXCEPT ![p] = UpSuccess(Passed(r, "added"))]
           \/ /\ inv' = [inv EXCEPT ![p] = Raise(r, "add_backend", "create_backend")]
              /\ UNCHANGED backends
    /\ UNCHANGED <<inst, now, backend_sets>>

\* ------------------------------------------------------------- scale-down
\* Mutant of AtMinimum: the comparison is strict.
AtMinimum_Strict(count) == count < config.min_instances

\* if len(instances) <= config['min_instances']
AtMinimum(count) == count <= config.min_instances

\* sorted(instances, key=lambda x: x.time_created): Python's sort is stable, an
\* instance goes behind every instance whose key is not greater than its own.
RECURSIVE InsertByTime(_, _)
InsertByTime(sorted, x) ==
    IF sorted = <<>> THEN <<x>>
    ELSE IF inst[Head(sorted)].time_created <= inst[x].time_created
         THEN <<Head(sorted)>> \o InsertByTime(Tail(sorted), x)
         ELSE <<x>> \o sorted

RECURSIVE SortedByTime(_)
SortedByTime(instances) ==
    IF instances = <<>> THEN <<>>
    ELSE InsertByTime(SortedByTime(SubSeq(instances, 1, Len(instances) - 1)),
                      instances[Len(instances)])

\* Mutant of select_instance_for_removal: the list is taken as it comes.
select_first_listed(instances) == instances[1]

\* Mutant of select_instance_for_removal: the last of the sorted list.
select_newest(instances) == SortedByTime(instances)[Len(instances)]

\* select_instance_for_removal: sorted_instances[0]; the caller handles the
\* "No instances available for removal" exception of an empty list.
select_instance_for_removal(instances) == SortedByTime(instances)[1]

\* History: the instances of S with the earliest creation time.
Oldest(S) == {i \in S : \A j \in S : inst[i].time_created <= inst[j].time_created}

OldestLeastId(S) == IF S = {} THEN NoInstance ELSE Min(Oldest(S))

OldestFirstListed(items) ==
    IF items = <<>> THEN NoInstance
    ELSE items[Min({k \in 1..Len(items) : items[k] \in Oldest(Range(items))})]

\* Mutant of list_active_instances: a failed read yields what it has, the
\* first instance listed.
list_active_instances_Partial(ok, items) ==
    IF ok \/ FilterPrefix(items) = <<>> THEN FilterPrefix(items)
    ELSE <<FilterPrefix(items)[1]>>

\* list_active_instances: the listed ACTIVE instances whose name has the prefix;
\* except Exception: return [].
list_active_instances(ok, items) == IF ok THEN FilterPrefix(items) ELSE <<>>

\* The inventory read, the minimum check and the choice of the instance to
\* remove, lines 54-69.
DownListActive(p) ==
    /\ inv[p].kind = "down" /\ inv[p].pc = "list_active"
    /\ \E ok \in BOOLEAN, items \in Orderings(InState("ACTIVE")) :
         LET instances == list_active_instances(ok, items)
             r0 == inv[p]
             r == [r0 EXCEPT !.current_count = Len(instances),
                             !.seen_active = Cardinality(FleetInState("ACTIVE")),
                             !.seen_oldest = OldestLeastId(Range(instances)),
                             !.seen_first = OldestFirstListed(instances)]
         IN  inv' = [inv EXCEPT ![p] =
                 IF AtMinimum(Len(instances))
                 THEN Finish(r, "skipped", "minimum", {"status", "message", "current_count"})
                 ELSE IF instances = <<>>
                 THEN Raise(r, "select", "no_instances")
                 ELSE [r EXCEPT !.instance_ocid = select_instance_for_removal(instances),
                                !.pc = "down_get_ip"]]
    /\ UNCHANGED <<inst, now, backend_sets, backends>>

\* Mutant of BackendStepFailed: the exception reaches the handler's except clause.
BackendStepFailed_Fatal(r, step) == Raise(r, step, "backend")

\* except Exception as e: private_ip = "unknown" (lines 80-82); the handler goes
\* on to the deletion.
BackendStepFailed(r, step) ==
    [Fault(r, step) EXCEPT !.private_ip = UnknownIp, !.pc = "delete"]

\* Scale-down get_instance_private_ip: one attempt, which returns the address or
\* raises "Failed to retrieve private IP address".
DownGetIp(p) ==
    /\ inv[p].kind = "down" /\ inv[p].pc = "down_get_ip"
    /\ \E resolved \in BOOLEAN :
         LET r == inv[p]
         IN  inv' = [inv EXCEPT ![p] =
                 IF resolved
                 THEN [r EXCEPT !.private_ip = AddressOf(r.instance_ocid),
                                !.pc = "remove_backend"]
                 ELSE BackendStepFailed(r, "resolve_address")]
    /\ UNCHANGED <<inst, now, backend_sets, backends>>

\* remove_backend_from_lb: a 404 of delete_backend is logged and the function
\* returns; any other exception is raised to the handler.
BackendNotFound(r) == [r EXCEPT !.pc = "delete"]

DownRemoveBackend(p) ==
    /\ inv[p].kind = "down" /\ inv[p].pc = "remove_backend"
    /\ LET r == Issue(inv[p], "delete_backend")
       IN  \/ /\ backend_sets /\ r.private_ip \in backends
              /\ backends' = backends \ {r.private_ip}
              /\ inv' = [inv EXCEPT ![p] = [r EXCEPT !.pc = "delete"]]
           \/ /\ ~(backend_sets /\ r.private_ip \in backends)
              /\ inv' = [inv EXCEPT ![p] = BackendNotFound(Fault(r, "backend_404"))]
              /\ UNCHANGED backends
           \/ /\ inv' = [inv EXCEPT ![p] = BackendStepFailed(r, "remove_backend")]
              /\ UNCHANGED backends
    /\ UNCHANGED <<inst, now, backend_sets>>

\* The success result of the scale-down handler, lines 87-100.
DownSuccess(r) ==
    Finish([r EXCEPT !.total_instances = r.current_count - 1],
           "success", "scaled_down",
           {"status", "message", "instance_ocid", "instance_name", "private_ip",
            "total_instances", "timestamp"})

\* Mutant of InstanceNotFound: the 404 of the delete request is raised again.
InstanceNotFound_Raises(r) == HandlerExcept(r, "not_found")

\* delete_container_instance, lines 229-233: a 404 of the delete request is
\* "Instance already deleted" and the function returns.
InstanceNotFound(r) == DownSuccess(r)

\* Mutant of DeleteRequested: the backend is removed once the deletion is under way.
DeleteRequested_ThenBackend(r) ==
    [r EXCEPT !.private_ip = AddressOf(r.instance_ocid), !.pc = "remove_backend"]

\* delete_container_instance, lines 200-209: the delete request was accepted;
\* the confirmation loop starts with elapsed = 0.
DeleteRequested(r) == [r EXCEPT !.pc = "await_deleted", !.elapsed = 0]

\* delete_container_instance, lines 199-204: the delete request.
DownDelete(p) ==
    /\ inv[p].kind = "down" /\ inv[p].pc = "delete"
    /\ LET r == Issue(inv[p], "delete_instance")
           v == r.instance_ocid
       IN  \/ /\ inst[v].state \in {"ACTIVE", "CREATING", "FAILED"}
              /\ inst' = [inst EXCEPT ![v].state = "DELETING"]
              /\ inv' = [inv EXCEPT ![p] = DeleteRequested(r)]
           \/ /\ inst[v].state = "DELETED"
              /\ inv' = [inv EXCEPT ![p] = InstanceNotFound(Fault(r, "instance_404"))]
              /\ UNCHANGED inst
           \/ /\ inv' = [inv EXCEPT ![p] = Raise(r, "delete", "delete_instance")]
              /\ UNCHANGED inst
    /\ UNCHANGED <<now, backend_sets, backends>>

\* delete_container_instance, lines 206-227: the confirmation loop. DELETED or a
\* 404 returns; another ServiceError is logged and the loop goes on; an exception
\* that is no ServiceError leaves the function; the timeout is logged.
DownAwaitDeleted(p) ==
    /\ inv[p].kind = "down" /\ inv[p].pc = "await_deleted"
    /\ \E answer \in {"state", "not_found", "service_error", "exception"} :
         LET r == inv[p]
             v == r.instance_ocid
         IN  /\ answer = "not_found" => inst[v].state = "DELETED"
             /\ inv' = [inv EXCEPT ![p] =
                  CASE answer = "state" /\ inst[v].state = "DELETED" -> DownSuccess(r)
                    [] answer = "not_found" -> DownSuccess(r)
                    [] answer = "exception" -> Raise(r, "await_deleted", "get_instance")
                    [] OTHER -> PollAgain(r, DeleteMaxWait, DownSuccess(r))]
    /\ UNCHANGED <<inst, now, backend_sets, backends>>

\* ------------------------------------------------------------ environment
\* The compute provider finishes what it was asked to do.
BecomeActive(i) ==
    /\ inst[i].state = "CREATING"
    /\ inst' = [inst EXCEPT ![i].state = "ACTIVE"]
    /\ UNCHANGED <<now, backend_sets, backends, inv>>

BecomeFailed(i) ==
    /\ inst[i].state = "CREATING"
    /\ inst' = [inst EXCEPT ![i].state = "FAILED"]
    /\ UNCHANGED <<now, backend_sets, backends, inv>>

BecomeDeleted(i) ==
    /\ inst[i].state = "DELETING"
    /\ inst' = [inst EXCEPT ![i].state = "DELETED"]
    /\ UNCHANGED <<now, backend_sets, backends, inv>>

Tick ==
    /\ now < MaxTime
    /\ now' = now + 1
    /\ UNCHANGED <<inst, backend_sets, backends, inv>>

\* ------------------------------------------------------- the specification
\* A fleet of k ACTIVE instances registered in the backend set (no backend set
\* before the first instance), and one instance of another deployment.
InitialFleet(k) ==
    [i \in AllIds |->
        IF i = ForeignId \/ i <= k
        THEN [state |-> "ACTIVE", time_created |-> 0, display_name |-> OlderName]
        ELSE [state |-> "NONE", time_created |-> 0, display_name |-> OlderName]]

Init ==
    /\ \E k \in 0..NumIds :
         /\ inst = InitialFleet(k)
         /\ backend_sets = (k > 0)
         /\ backends = {AddressOf(i) : i \in 1..k}
    /\ now = 0
    /\ inv = [p \in Invocations |-> IdleInvocation]

Next ==
    \/ \E p \in Invocations :
         \/ UpInvoke(p) \/ UpSetUp(p) \/ UpCountActive(p) \/ UpCountCreating(p) \/ UpCheckCooldown(p)
         \/ UpCreate(p) \/ UpWaitActive(p) \/ UpGetIp(p) \/ UpEnsureBackendSet(p)
         \/ UpCreateBackendSet(p) \/ UpAddBackend(p)
         \/ DownInvoke(p) \/ DownSetUp(p) \/ DownListActive(p) \/ DownGetIp(p) \/ DownRemoveBackend(p)
         \/ DownDelete(p) \/ DownAwaitDeleted(p)
    \/ \E i \in FleetIds : BecomeActive(i) \/ BecomeFailed(i) \/ BecomeDeleted(i)
    \/ Tick

Spec == Init /\ [][Next]_vars

\* An invocation that has started is sequential, blocking code: the handler runs
\* on, one step after the other, until it returns.
Step(p) ==
    \/ UpSetUp(p) \/ UpCountActive(p) \/ UpCountCreating(p) \/ UpCheckCooldown(p)
    \/ UpCreate(p) \/ UpWaitActive(p) \/ UpGetIp(p) \/ UpEnsureBackendSet(p)
    \/ UpCreateBackendSet(p) \/ UpAddBackend(p)
    \/ DownSetUp(p) \/ DownListActive(p) \/ DownGetIp(p) \/ DownRemoveBackend(p)
    \/ DownDelete(p) \/ DownAwaitDeleted(p)

FairSpec == Spec /\ \A p \in Invocations : WF_vars(Step(p))

\* Invocations that do not overlap: an alarm is delivered only when no other
\* invocation is between its start and its return.
OthersRunning(p) ==
    \E q \in Invocations \ {p} : inv[q].pc \notin {"idle", "done"}

SerialNext ==
    \/ \E p \in Invocations :
         \/ ~OthersRunning(p) /\ UpInvoke(p)
         \/ ~OthersRunning(p) /\ DownInvoke(p)
         \/ Step(p)
    \/ \E i \in FleetIds : BecomeActive(i) \/ BecomeFailed(i) \/ BecomeDeleted(i)
    \/ Tick

SerialSpec == Init /\ [][SerialNext]_vars

\* A fleet of k ACTIVE instances created at k different times before the clock
\* started, changed by scale-down invocations only (and by the provider
\* completing the deletions they ask for).
AgedFleet(k, age) ==
    [i \in AllIds |->
        IF i \in 1..k
        THEN [state |-> "ACTIVE", time_created |-> age[i] - NumIds - 1,
              display_name |-> OlderName]
        ELSE IF i = ForeignId
        THEN [state |-> "ACTIVE", time_created |-> 0, display_name |-> OlderName]
        ELSE [state |-> "NONE", time_created |-> 0, display_name |-> OlderName]]

DownInit ==
    /\ \E k \in 0..NumIds, age \in Orderings(FleetIds) :
         /\ inst = AgedFleet(k, age)
         /\ backend_sets = (k > 0)
         /\ backends = {AddressOf(i) : i \in 1..k}
    /\ now = 0
    /\ inv = [p \in Invocations |-> IdleInvocation]

DownNext ==
    \/ \E p \in Invocations :
         \/ DownInvoke(p) \/ DownSetUp(p) \/ DownListActive(p) \/ DownGetIp(p)
         \/ DownRemoveBackend(p) \/ DownDelete(p) \/ DownAwaitDeleted(p)
    \/ \E i \in FleetIds : BecomeDeleted(i)

DownSpec == DownInit /\ [][DownNext]_vars

\* Scale-up invocations on a load balancer whose backend set an operator may
\* delete at any time, together with the backends in it.
BackendSetRemoved ==
    /\ backend_sets
    /\ backend_sets' = FALSE /\ backends' = {}
    /\ UNCHANGED <<inst, now, inv>>

UpNext ==
    \/ \E p \in Invocations :
         \/ UpInvoke(p) \/ UpSetUp(p) \/ UpCountActive(p) \/ UpCountCreating(p)
         \/ UpCheckCooldown(p) \/ UpCreate(p) \/ UpWaitActive(p) \/ UpGetIp(p)
         \/ UpEnsureBackendSet(p) \/ UpCreateBackendSet(p) \/ UpAddBackend(p)
    \/ \E i \in FleetIds : BecomeActive(i) \/ BecomeFailed(i)
    \/ Tick
    \/ BackendSetRemoved

UpSpec == Init /\ [][UpNext]_vars

\* ------------------------------------------------------------------ claims
Called(r, call) == call \in Range(r.calls)
Returned(r, status) == r.pc = "done" /\ r.status = status

\* C1: for a fleet whose active instance count is at or above maxInstances, a
\* scale-up invocation issues no create/delete/backend call and returns
\* 'skipped'. (The count is the fleet's at the invocation's inventory read.)
C1_SkipsAtMaximum ==
    \A p \in Invocations :
        (inv[p].kind = "up" /\ inv[p].seen_active # NotRead
                            /\ inv[p].seen_active >= config.max_instances)
        => /\ inv[p].calls = <<>>
           /\ inv[p].pc = "done" => inv[p].status = "skipped"

\* C2: for a fleet whose active instance count is at or below minInstances, a
\* scale-down invocation returns 'skipped' and issues no delete-instance or
\* delete-backend call. (The count is the fleet's at the inventory read, which
\* decides at once; the read may fail.)
C2_SkipsAtMinimum ==
    \A p \in Invocations :
        (inv[p].kind = "down" /\ inv[p].seen_active # NotRead
                              /\ inv[p].seen_active <= config.min_instances)
        => Returned(inv[p], "skipped") /\ inv[p].calls = <<>>

\* C2 witness: a scale-down that read a fleet of exactly minInstances and skipped.
C2_Witness ==
    \E p \in Invocations :
        /\ inv[p].kind = "down" /\ Returned(inv[p], "skipped")
        /\ inv[p].seen_active = config.min_instances
        /\ inv[p].current_count = config.min_instances

\* C3 (as claimed): under any interleaving of concurrent scale-up invocations
\* at most one instance of the fleet is in CREATING state at any time.
C3_AtMostOneCreating == Cardinality(FleetInState("CREATING")) <= 1

\* C3 (amended): two instances of the fleet are CREATING at once only when an
\* invocation that created one of them had read its creating count before the
\* other instance was created, or its creating-count read failed and gave 0;
\* an invocation whose read shows the CREATING instance skips.
C3_OneCreatingUnlessRaced ==
    Cardinality(FleetInState("CREATING")) > 1
    => \E p \in Invocations :
         /\ inv[p].kind = "up" /\ Called(inv[p], "create_instance")
         /\ inv[p].overtaken \/ inv[p].seen_creating > inv[p].creating_count

\* C3 witness: one invocation has created an instance that is still CREATING and
\* the other, having read it, returned 'skipped' (scale-up already in progress).
C3_Witness ==
    \E p, q \in Invocations :
        /\ p # q
        /\ inv[q].kind = "up" /\ Called(inv[q], "create_instance")
        /\ Cardinality(FleetInState("CREATING")) = 1
        /\ inv[p].kind = "up" /\ Returned(inv[p], "skipped")
        /\ inv[p].message = "in_progress" /\ inv[p].seen_creating = 1

\* C4: if an instance of the fleet is in CREATING state when a scale-up
\* invocation reads the inventory, the invocation creates no instance and
\* returns 'skipped', whatever the active count is.
C4_SkipsWhenCreating ==
    \A p \in Invocations :
        (inv[p].kind = "up" /\ inv[p].seen_creating # NotRead /\ inv[p].seen_creating > 0)
        => /\ inv[p].calls = <<>>
           /\ inv[p].pc = "done" => inv[p].status = "skipped"

\* The cooldown check of an invocation has decided: skipped, or gone on to
\* provisioning.
SkippedByCooldown(r) == Returned(r, "skipped") /\ r.message = "cooldown"
Proceeded(r) == r.pc = "create" \/ Called(r, "create_instance")
InWindow(t) == t # NoElapsed /\ t < config.cooldown_seconds
Elapsed(t) == t # NoElapsed /\ t >= config.cooldown_seconds

\* C5 (as claimed): with the max and in-flight checks passed, scale-up returns
\* 'skipped' when the newest instance of the fleet was created t < cooldown
\* seconds ago and proceeds to provisioning when t >= cooldown.
C5_CooldownDecides ==
    \A p \in Invocations :
        (inv[p].kind = "up" /\ (SkippedByCooldown(inv[p]) \/ Proceeded(inv[p])))
        => /\ InWindow(inv[p].seen_elapsed) => SkippedByCooldown(inv[p])
           /\ Elapsed(inv[p].seen_elapsed) => Proceeded(inv[p])

\* C5 (amended): as claimed when the inventory read of the cooldown check
\* succeeds: 'skipped' for t < cooldown, provisioning for t >= cooldown, t equal
\* to the cooldown counting as elapsed. (When that read fails the check allows
\* scaling whatever t is.)
C5_CooldownDecidesWhenRead ==
    \A p \in Invocations :
        (inv[p].kind = "up" /\ (SkippedByCooldown(inv[p]) \/ Proceeded(inv[p])))
        => /\ (InWindow(inv[p].seen_elapsed) /\ "cooldown_read" \notin inv[p].faults)
                => SkippedByCooldown(inv[p])
           /\ Elapsed(inv[p].seen_elapsed) => Proceeded(inv[p])

\* C5 witness: the boundary, t equal to the cooldown, went on to provisioning.
C5_Witness ==
    \E p \in Invocations :
        /\ inv[p].kind = "up" /\ Proceeded(inv[p])
        /\ inv[p].seen_elapsed = config.cooldown_seconds

\* C6 (as claimed): the instance selected for removal is the one with the
\* earliest creation time among the ACTIVE instances read, the least identifier
\* among those that share it, whatever the order of the listing.
C6_OldestLeastId ==
    \A p \in Invocations :
        (inv[p].kind = "down" /\ inv[p].instance_ocid # NoInstance)
        => inv[p].instance_ocid = inv[p].seen_oldest

\* C6 (amended): the instance selected has the earliest creation time among the
\* ACTIVE instances read; among those that share it, it is the one the
\* inventory listed first.
C6_OldestFirstListed ==
    \A p \in Invocations :
        (inv[p].kind = "down" /\ inv[p].instance_ocid # NoInstance)
        => /\ inv[p].instance_ocid = inv[p].seen_first
           /\ inst[inv[p].instance_ocid].time_created
                = inst[inv[p].seen_oldest].time_created

\* C6 witness: a selection among instances of different creation times.
C6_Witness ==
    \E p \in Invocations :
        /\ inv[p].kind = "down" /\ inv[p].instance_ocid # NoInstance
        /\ inv[p].pc = "down_get_ip"
        /\ \E j \in FleetInState("ACTIVE") :
             inst[j].time_created > inst[inv[p].instance_ocid].time_created

BackendFaults == {"resolve_address", "remove_backend"}
DeletionFaults == {"delete", "await_deleted"}

\* C7: in a scale-down invocation that passed the minimum check, a failure to
\* resolve the address of the instance or to remove its backend is not fatal:
\* the invocation goes on to the delete-instance request and its result is
\* 'success' (only a failure of the deletion itself makes it 'error'); when the
\* address was not resolved no delete-backend call is made and the address
\* reported is "unknown".
C7_BackendFailureNotFatal ==
    \A p \in Invocations :
        (inv[p].kind = "down" /\ inv[p].faults \cap BackendFaults # {})
        => /\ inv[p].pc = "delete" \/ Called(inv[p], "delete_instance")
           /\ inv[p].pc = "done"
                => \/ inv[p].status = "success"
                   \/ inv[p].status = "error" /\ inv[p].faults \cap DeletionFaults # {}
           /\ "resolve_address" \in inv[p].faults
                => ~Called(inv[p], "delete_backend") /\ inv[p].private_ip = UnknownIp

\* C7 witness: address resolution failed, the instance was deleted all the same
\* and the result is 'success' with the address "unknown".
C7_Witness ==
    \E p \in Invocations :
        /\ inv[p].kind = "down" /\ "resolve_address" \in inv[p].faults
        /\ Returned(inv[p], "success") /\ inv[p].private_ip = UnknownIp
        /\ inv[p].calls = <<"delete_instance">>
        /\ inst[inv[p].instance_ocid].state \in {"DELETING", "DELETED"}

\* C8: a backend that the load balancer reports as not found, and an instance
\* that the compute provider reports as not found, both count as removed: the
\* invocation goes on after the first and returns 'success' after the second,
\* so that scale-down on state that was cleaned up already does not end in
\* 'error'.
C8_NotFoundIsSuccess ==
    \A p \in Invocations :
        inv[p].kind = "down"
        => /\ "backend_404" \in inv[p].faults
                => /\ inv[p].pc = "delete" \/ Called(inv[p], "delete_instance")
                   /\ inv[p].private_ip = AddressOf(inv[p].instance_ocid)
                   /\ Returned(inv[p], "error") => inv[p].faults \cap DeletionFaults # {}
           /\ "instance_404" \in inv[p].faults => Returned(inv[p], "success")

\* C8 witness: a scale-down whose instance another invocation had removed: the
\* backend and the instance were both not found, and the result is 'success'.
C8_Witness ==
    \E p \in Invocations :
        /\ inv[p].kind = "down" /\ Returned(inv[p], "success")
        /\ {"backend_404", "instance_404"} \subseteq inv[p].faults
        /\ inst[inv[p].instance_ocid].state = "DELETED"

Statuses == {"success", "skipped", "error"}
Positions ==
    {"idle", "setup", "count_active", "count_creating", "cooldown", "create", "wait_active",
     "get_ip", "ensure_backend_set", "create_backend_set", "add_backend",
     "list_active", "down_get_ip", "remove_backend", "delete", "await_deleted", "done"}

\* C10: in scale-up, once the policy checks have passed, a failure of a later
\* step (provision, await ACTIVE, resolve address, ensure backend set, add
\* backend) makes the invocation return 'error', never 'success' or 'skipped'.
PostPolicyFaults ==
    {"provision", "await_active", "resolve_address", "ensure_backend_set", "add_backend"}

C10_LaterFailureIsError ==
    \A p \in Invocations :
        (inv[p].kind = "up" /\ inv[p].faults \cap PostPolicyFaults # {})
        => Returned(inv[p], "error")

\* C10 witness: every one of the five steps has failed in some invocation; here
\* the last, with the instance created and ACTIVE and no backend added.
C10_Witness ==
    \E p \in Invocations :
        /\ inv[p].kind = "up" /\ "add_backend" \in inv[p].faults
        /\ Returned(inv[p], "error")
        /\ inv[p].calls[1] = "create_instance"
        /\ inst[inv[p].instance_ocid].state = "ACTIVE"
        /\ AddressOf(inv[p].instance_ocid) \notin backends

\* C9: every invocation of the scale-up or the scale-down handler, whatever the
\* event payload, the configuration and the failures of the providers, ends by
\* returning a result whose status is success, skipped or error; no exception
\* leaves the handler.
C9_AlwaysReturnsResult ==
    /\ [](\A p \in Invocations :
            /\ inv[p].pc \in Positions
            /\ inv[p].pc = "done" => /\ inv[p].status \in Statuses
                                     /\ "status" \in inv[p].fields)
    /\ \A p \in Invocations : (inv[p].pc # "idle") ~> (inv[p].pc = "done")

\* C9 witness: an event that is no JSON and providers that fail: one handler
\* has caught an exception and returned 'error', the other has returned too.
C9_Witness ==
    /\ \E p \in Invocations :
         /\ Returned(inv[p], "error") /\ inv[p].faults \cap DeletionFaults # {}
    /\ \E p \in Invocations :
         /\ Returned(inv[p], "error") /\ inv[p].faults = {"setup"}

\* C11: a scale-up invocation returns 'success' only after, in this order, the
\* instance was created, it was observed ACTIVE, its private address was
\* resolved, the backend set was ensured to exist and a backend for that address
\* was added; the result reports the active count that was read plus one.
C11_SuccessAfterAllSteps ==
    \A p \in Invocations :
        (inv[p].kind = "up" /\ Returned(inv[p], "success"))
        => /\ inv[p].trail = <<"created", "active", "resolved", "ensured", "added">>
           /\ inv[p].calls[1] = "create_instance"
           /\ inv[p].calls[Len(inv[p].calls)] = "create_backend"
           /\ inv[p].instance_ocid \in FleetIds
           /\ inst[inv[p].instance_ocid].state # "NONE"
           /\ inv[p].private_ip = AddressOf(inv[p].instance_ocid)
           /\ inv[p].total_instances = inv[p].current_count + 1

\* C11 witness: scenario A, one ACTIVE instance and a second one added: the
\* result is 'success' with a fleet size of 2 and the new backend registered.
C11_Witness ==
    \E p \in Invocations :
        /\ inv[p].kind = "up" /\ Returned(inv[p], "success")
        /\ inv[p].seen_active = 1 /\ inv[p].total_instances = 2
        /\ inst[inv[p].instance_ocid].state = "ACTIVE"
        /\ inv[p].private_ip \in backends

\* C12: in every scale-down invocation a delete-backend call for the address of
\* the instance to remove comes before the delete-instance request for that
\* instance; no backend is removed once the deletion has been requested.
C12_BackendBeforeInstance ==
    \A p \in Invocations :
        inv[p].kind = "down"
        => /\ \A i, j \in 1..Len(inv[p].calls) :
                (inv[p].calls[i] = "delete_instance" /\ inv[p].calls[j] = "delete_backend")
                => j < i
           /\ Called(inv[p], "delete_instance") => inv[p].pc \in {"await_deleted", "done"}

\* C12 witness: the backend was removed, then the instance deleted.
C12_Witness ==
    \E p \in Invocations :
        /\ inv[p].kind = "down" /\ Returned(inv[p], "success")
        /\ inv[p].calls = <<"delete_backend", "delete_instance">>
        /\ inv[p].private_ip \notin backends
        /\ inst[inv[p].instance_ocid].state = "DELETED"

Bodies == {"body", "empty"}

\* C13: the result of an invocation does not depend on the event payload: with
\* the same configuration and the same provider state, invocations with
\* different payloads (a missing or an unparseable payload included) take the
\* same decision and return the same status. The parsed body is held only up to
\* the set-up, and the set-up leaves the handler in the same state whatever the
\* body was; every later step is determined by that state and the providers.
C13_PayloadIndependent ==
    /\ [](\A p \in Invocations : inv[p].pc # "setup" => inv[p].body = "none")
    /\ [][\A p \in Invocations :
            (inv[p].pc = "setup" /\ inv'[p].pc # "setup")
            => \A b \in Bodies :
                 inv'[p] = AfterSetUp([inv[p] EXCEPT !.body = b], inv'[p].pc # "done")]_vars

\* C13 witness: two invocations of the same handler on the same provider state,
\* one with an alarm body and one whose payload did not parse.
C13_Witness ==
    /\ inv["a"].pc = "setup" /\ inv["b"].pc = "setup"
    /\ inv["a"].kind = inv["b"].kind
    /\ inv["a"].body = "body" /\ inv["b"].body = "empty"

\* C14: every result returned by either handler, whatever its status (success,
\* skipped or error), carries the fields status, message and timestamp.
C14_ResultFields ==
    \A p \in Invocations :
        inv[p].pc = "done" => {"status", "message", "timestamp"} \subseteq inv[p].fields

\* The polling loops and their timeouts.
PollingLoops == {"wait_active", "get_ip", "await_deleted"}
MaxWaitOf(pc) ==
    CASE pc = "wait_active" -> ActiveMaxWait
      [] pc = "get_ip" -> IpMaxWait
      [] pc = "await_deleted" -> DeleteMaxWait

\* C15: every polling loop (await ACTIVE, resolve the private address, confirm
\* DELETED) ends after a number of iterations bounded by its timeout and its
\* interval, whatever the provider answers: the loop runs only while elapsed is
\* below the timeout, every iteration that stays in the loop adds the interval
\* to elapsed, and an invocation inside the loops gets out of them.
C15_PollingTerminates ==
    /\ [](\A p \in Invocations :
            inv[p].pc \in PollingLoops
            => inv[p].elapsed >= 0 /\ inv[p].elapsed < MaxWaitOf(inv[p].pc))
    /\ [][\A p \in Invocations :
            (inv[p].pc \in PollingLoops /\ inv'[p].pc = inv[p].pc /\ inv'[p] # inv[p])
            => inv'[p].elapsed = inv[p].elapsed + PollInterval]_vars
    /\ \A p \in Invocations :
         (inv[p].pc \in PollingLoops) ~> (inv[p].pc \notin PollingLoops)

\* C15 witness: loops that ran into their timeout: an instance that never became
\* ACTIVE, and a deletion that was not confirmed.
C15_Witness ==
    /\ \E p \in Invocations :
         /\ inv[p].kind = "up" /\ "await_active" \in inv[p].faults
         /\ inst[inv[p].instance_ocid].state = "CREATING"
    /\ \E q \in Invocations :
         /\ inv[q].kind = "down" /\ Returned(inv[q], "success")
         /\ inst[inv[q].instance_ocid].state = "DELETING"

\* One step of wait_for_instance_state from r to r2: the target state was
\* observed and the function returned True; or the pass did not return and the
\* loop goes on within the timeout; or the loop is over at the timeout.
WaitReturnedTrue(r, r2) ==
    r2.pc = "get_ip" /\ inst[r.instance_ocid].state = "ACTIVE"
WaitGoesOn(r, r2) ==
    /\ r2.pc = "wait_active"
    /\ r2.elapsed = r.elapsed + PollInterval /\ r2.elapsed < ActiveMaxWait
AtTimeout(r) == r.elapsed + PollInterval >= ActiveMaxWait
Raised(r, step) == step \in r.faults

\* C16 (as claimed): wait_for_instance_state polls until the state equals the
\* target and returns success; at the timeout it reports failure as a returned
\* value, not as an exception; a provider error on one poll does not end the
\* loop before the timeout.
C16_TimeoutIsReturned ==
    [][\A p \in Invocations :
         (inv[p].pc = "wait_active" /\ inv'[p] # inv[p])
         => \/ WaitReturnedTrue(inv[p], inv'[p])
            \/ WaitGoesOn(inv[p], inv'[p])
            \/ AtTimeout(inv[p]) /\ ~Raised(inv'[p], "await_active")]_vars

\* C16 (amended): as claimed, except that at the timeout the function raises an
\* exception, which ends the invocation with 'error'.
C16_TimeoutIsRaised ==
    [][\A p \in Invocations :
         (inv[p].pc = "wait_active" /\ inv'[p] # inv[p])
         => \/ WaitReturnedTrue(inv[p], inv'[p])
            \/ WaitGoesOn(inv[p], inv'[p])
            \/ /\ AtTimeout(inv[p]) /\ Raised(inv'[p], "await_active")
               /\ Returned(inv'[p], "error")]_vars

\* C16 witness: the instance failed to start, the wait ran to its timeout and
\* the invocation returned 'error'.
C16_Witness ==
    \E p \in Invocations :
        /\ inv[p].kind = "up" /\ Raised(inv[p], "await_active")
        /\ Returned(inv[p], "error") /\ inv[p].message = "timeout_state"
        /\ inv[p].trail = <<"created">>
        /\ inst[inv[p].instance_ocid].state = "FAILED"

\* The fleet the run started from: its instances carry an older name.
InitialSize ==
    Cardinality({i \in FleetIds : inst[i].state # "NONE" /\ inst[i].display_name = OlderName})
Provisioned == FleetInState("ACTIVE") \cup FleetInState("CREATING")
NonOverlapping == \A p \in Invocations : inv[p].pc \in {"idle", "done"} \/ ~OthersRunning(p)
CountReadsSucceeded ==
    \A p \in Invocations :
        /\ inv[p].seen_active # NotRead => inv[p].current_count = inv[p].seen_active
        /\ inv[p].seen_creating # NotRead => inv[p].creating_count = inv[p].seen_creating

\* C17: from a fleet with active + creating <= maxInstances, after any sequence
\* of non-overlapping scale-up and scale-down invocations in which the active
\* and the creating count reads succeed, the number of instances of the fleet
\* in ACTIVE or CREATING state never exceeds maxInstances, also when the
\* cooldown check's inventory read fails and the cooldown fails open.
C17_NeverAboveMaximum ==
    (InitialSize <= config.max_instances /\ NonOverlapping /\ CountReadsSucceeded)
    => Cardinality(Provisioned) <= config.max_instances

\* C18: for a fleet whose ACTIVE instances have distinct creation times and
\* which only scale-down invocations change, under any interleaving of
\* concurrent scale-down invocations the number of instances still ACTIVE (not
\* requested for deletion) never drops below minInstances.
C18_NeverBelowMinimum ==
    InitialSize >= config.min_instances
    => Cardinality(FleetInState("ACTIVE")) >= config.min_instances

\* C18 witness: two concurrent invocations read the same two instances, chose the
\* same one and both returned 'success'; the fleet is at its minimum.
C18_Witness ==
    /\ \A p \in Invocations :
         /\ inv[p].kind = "down" /\ Returned(inv[p], "success")
         /\ inv[p].seen_active = config.min_instances + 1
    /\ inv["a"].instance_ocid = inv["b"].instance_ocid
    /\ Cardinality(FleetInState("ACTIVE")) = config.min_instances

\* C19: when the inventory read of the cooldown check fails, the check allows
\* scaling: a scale-up whose max and in-flight checks passed goes on to
\* provision an instance; the failed read makes it neither 'skipped' nor 'error'.
C19_CooldownFailsOpen ==
    \A p \in Invocations :
        (inv[p].kind = "up" /\ Raised(inv[p], "cooldown_read"))
        => /\ Proceeded(inv[p])
           /\ ~SkippedByCooldown(inv[p])
           /\ Returned(inv[p], "error") => inv[p].faults \cap PostPolicyFaults # {}

\* C19 witness: the newest instance is younger than the cooldown, the check's
\* read failed, and the invocation has created an instance.
C19_Witness ==
    \E p \in Invocations :
        /\ inv[p].kind = "up" /\ Raised(inv[p], "cooldown_read")
        /\ InWindow(inv[p].seen_elapsed)
        /\ inv[p].trail # <<>> /\ inv[p].trail[1] = "created"

\* An inventory read of r gave less than the fleet had: the read failed.
ActiveReadFailed(r) == r.seen_active # NotRead /\ r.current_count < r.seen_active
CreatingReadFailed(r) == r.seen_creating # NotRead /\ r.creating_count < r.seen_creating

\* C20: a provider error during an inventory read never fails the caller: the
\* reader yields an empty sequence (a count of zero) and the handler goes on
\* with its remaining checks; a scale-down invocation then returns 'skipped' and
\* deletes nothing.
C20_ReadFailureIsEmpty ==
    \A p \in Invocations :
        /\ (inv[p].kind = "down" /\ ActiveReadFailed(inv[p]))
             => /\ inv[p].current_count = 0
                /\ Returned(inv[p], "skipped") /\ inv[p].calls = <<>>
        /\ (inv[p].kind = "up" /\ ActiveReadFailed(inv[p]))
             => /\ inv[p].current_count = 0
                /\ inv[p].pc = "count_creating" \/ inv[p].seen_creating # NotRead
        /\ (inv[p].kind = "up" /\ CreatingReadFailed(inv[p]))
             => /\ inv[p].creating_count = 0
                /\ \/ Returned(inv[p], "skipped") /\ inv[p].message = "maximum"
                   \/ inv[p].pc = "cooldown"
                   \/ inv[p].seen_elapsed # NoElapsed
        /\ (ActiveReadFailed(inv[p]) \/ CreatingReadFailed(inv[p]))
             => (Returned(inv[p], "error") => inv[p].faults \cap PostPolicyFaults # {})

\* C20 witness: a scale-down on a fleet above its minimum whose inventory read
\* failed returned 'skipped'; a scale-up whose reads failed went on to the
\* cooldown check.
C20_Witness ==
    /\ \E p \in Invocations :
         /\ inv[p].kind = "down" /\ inv[p].seen_active > config.min_instances
         /\ inv[p].current_count = 0 /\ Returned(inv[p], "skipped")
    /\ \E q \in Invocations :
         /\ inv[q].kind = "up" /\ ActiveReadFailed(inv[q]) /\ inv[q].pc = "cooldown"

\* The instances of the fleet the provider knows, in whatever lifecycle state,
\* and those of them created less than the cooldown ago.
Matching == {i \in FleetIds : inst[i].state # "NONE"}
Recent == {i \in Matching : now - inst[i].time_created < config.cooldown_seconds}

\* C21: the cooldown is measured from the latest creation time over all
\* instances with the fleet prefix in any lifecycle state: a recently created
\* instance that is FAILED, DELETING or DELETED blocks a scale-up inside the
\* cooldown as an ACTIVE one does, and a fleet without a matching instance
\* passes the cooldown check. (The check is taken as it decides on a read that
\* succeeded.)
C21_CooldownOverAllStates ==
    [][\A p \in Invocations :
         (inv[p].kind = "up" /\ inv[p].pc = "cooldown" /\ inv'[p].pc # "cooldown")
         => /\ Matching = {} => inv'[p].pc = "create"
            /\ (Recent # {} /\ ~Raised(inv'[p], "cooldown_read"))
                 => SkippedByCooldown(inv'[p])
            /\ Recent = {} => inv'[p].pc = "create"]_vars

\* C21 witness: an empty fleet passed the cooldown check; the instance then
\* created failed to start, and with no ACTIVE instance in the fleet it made the
\* next scale-up skip inside the cooldown.
C21_Witness ==
    \E p, q \in Invocations :
        /\ inv[p].kind = "up" /\ inv[p].seen_elapsed = NoElapsed
        /\ inv[p].trail = <<"created">>
        /\ inv[q].kind = "up" /\ SkippedByCooldown(inv[q])
        /\ ~Raised(inv[q], "cooldown_read")
        /\ FleetInState("ACTIVE") = {} /\ FleetInState("CREATING") = {}
        /\ FleetInState("FAILED") # {}

\* How often an invocation has issued a call.
Times_Called(r, call) == Cardinality({k \in 1..Len(r.calls) : r.calls[k] = call})
CreateCalls == {"create_instance", "create_backend_set", "create_backend"}
DeleteCalls == {"delete_instance", "delete_backend"}

\* C22: no invocation retries its action or rolls it back: a scale-up issues at
\* most one create-instance request and no delete request, so that an instance
\* that never reaches ACTIVE is left in place and the result is 'error'; a
\* scale-down issues at most one delete-instance request and no create request.
C22_NoRetryNoRollback ==
    \A p \in Invocations :
        /\ inv[p].kind = "up"
             => /\ Times_Called(inv[p], "create_instance") <= 1
                /\ Range(inv[p].calls) \cap DeleteCalls = {}
                /\ Raised(inv[p], "await_active")
                     => Returned(inv[p], "error") /\ inv[p].calls = <<"create_instance">>
        /\ inv[p].kind = "down"
             => /\ Times_Called(inv[p], "delete_instance") <= 1
                /\ Times_Called(inv[p], "delete_backend") <= 1
                /\ Range(inv[p].calls) \cap CreateCalls = {}

\* C22 witness: a scale-up whose instance did not reach ACTIVE returned 'error'
\* and left the instance; a scale-down whose delete request failed returned
\* 'error' after the one request.
C22_Witness ==
    \E p, q \in Invocations :
        /\ inv[p].kind = "up" /\ Raised(inv[p], "await_active")
        /\ inst[inv[p].instance_ocid].state \in {"CREATING", "FAILED"}
        /\ inv[q].kind = "down" /\ Raised(inv[q], "delete")
        /\ Returned(inv[q], "error")
        /\ Times_Called(inv[q], "delete_instance") = 1

\* The delete-instance request of r was accepted by the provider.
DeleteAccepted(r) ==
    /\ r.kind = "down" /\ Called(r, "delete_instance")
    /\ ~Raised(r, "delete") /\ ~Raised(r, "instance_404")

\* C23: once the delete-instance request of a scale-down has been accepted, the
\* confirmation wait is best-effort: the invocation returns 'success' whether a
\* poll observes DELETED, gets a not-found response, or the budget runs out with
\* the instance not DELETED; a transient provider error on a confirmation poll
\* is retried and not turned into 'error'.
C23_ConfirmationBestEffort ==
    \A p \in Invocations :
        DeleteAccepted(inv[p])
        => inv[p].pc = "await_deleted" \/ Returned(inv[p], "success")

\* C24: ensure_backend_set_exists issues a create-backend-set request if and
\* only if the name is absent from the backend-set names it has read; it runs in
\* every scale-up before the backend is added, so that a backend set deleted
\* out-of-band is created again, and a backend set that exists is not created
\* again.
C24_CreatesBackendSetIffAbsent ==
    /\ [](\A p \in Invocations :
            /\ Times_Called(inv[p], "create_backend_set") <= 1
            /\ Called(inv[p], "create_backend")
                 => \E k \in 1..Len(inv[p].trail) : inv[p].trail[k] = "ensured")
    /\ [][\A p \in Invocations :
            /\ (inv[p].pc = "ensure_backend_set" /\ inv'[p].pc # "ensure_backend_set")
                 => /\ inv'[p].pc = "create_backend_set"
                         <=> (~backend_sets /\ ~Raised(inv'[p], "ensure_backend_set"))
                    /\ inv'[p].pc = "add_backend"
                         <=> (backend_sets /\ ~Raised(inv'[p], "ensure_backend_set"))
            /\ Times_Called(inv'[p], "create_backend_set") > Times_Called(inv[p], "create_backend_set")
                 => inv[p].pc = "create_backend_set"
            /\ (inv[p].pc = "create_backend_set" /\ inv'[p].pc = "add_backend")
                 => ~backend_sets /\ backend_sets']_vars

\* C24 witness: the backend set of a running fleet was deleted; the next
\* scale-up created it again and added its backend.
C24_Witness ==
    \E p \in Invocations :
        /\ inv[p].kind = "up" /\ Returned(inv[p], "success")
        /\ inv[p].calls = <<"create_instance", "create_backend_set", "create_backend">>
        /\ InitialSize > 0
        /\ backend_sets /\ backends = {inv[p].private_ip}

====
